---- MODULE Spec2Model ----
(***************************************************************************)
(* Model of the symbol / resource-dependency engine of cog-core:           *)
(*   src/debug_graph.py   SymbolGraphBuilder.parse_symbols (regex)         *)
(*   src/graph_builder.py SymbolGraphBuilder.extract_resource_dependencies,*)
(*                        _extract_resources_from_function,                *)
(*                        _extract_function_params, build_dependency_graph,*)
(*                        analyze_dependencies                             *)
(* Text is a sequence of one-character strings; every string operation and *)
(* every regular expression of the source is computed character by         *)
(* character.  Symbol lists come from the regex extractor of               *)
(* debug_graph.py; parse_symbols of graph_builder.py hands the text to the *)
(* tree-sitter library and is not modelled.                                *)
(*                                                                         *)
(* Spec       one caller: parse, extract, build, analyse, then the same on *)
(*            an edit of the text, on one builder.                         *)
(* SpecCopy   the same caller, who also mutates the returned mappings.     *)
(* SpecShared two callers whose extract_resource_dependencies statements   *)
(*            interleave, on one builder or on one builder each.           *)
(***************************************************************************)
EXTENDS Integers, Sequences, FiniteSets, TLC

\* ------------------------------------------------------------------ bounds
\* Longest source text, in lines.
MaxLines == 3
\* Longest text, in lines, whose returned mappings the caller mutates.
MaxCopyLines == 2
\* Longest text, in lines, that one of two interleaved callers analyses.
MaxSharedLines == 1

\* ------------------------------------------------- character classes (re)
NL == "\n"

LowerLetters ==
    {"a","b","c","d","e","f","g","h","i","j","k","l","m",
     "n","o","p","q","r","s","t","u","v","w","x","y","z"}

UpperLetters ==
    {"A","B","C","D","E","F","G","H","I","J","K","L","M",
     "N","O","P","Q","R","S","T","U","V","W","X","Y","Z"}

Digits == {"0","1","2","3","4","5","6","7","8","9"}

\* \s
IsSpace(c) == c \in {" ", "\t", NL, "\r"}

\* [a-zA-Z_]
IsIdentStart(c) == c \in LowerLetters \cup UpperLetters \cup {"_"}

\* [a-zA-Z0-9_]  (also \w on the ASCII texts used here)
IsWordChar(c) == c \in LowerLetters \cup UpperLetters \cup Digits \cup {"_"}

\* ------------------------------------------------------ str primitives
\* s[i:j] of Python with 1-based inclusive positions i..j.
Slice(s, i, j) == IF j < i THEN <<>> ELSE SubSeq(s, i, j)

\* s.startswith(p) at position i (1-based): s[i-1:].startswith(p)
StartsWithAt(s, i, p) ==
    /\ i + Len(p) - 1 <= Len(s)
    /\ \A k \in 1..Len(p) : s[i + k - 1] = p[k]

StartsWith(s, p) == StartsWithAt(s, 1, p)

\* str.lower() on one character
LowerChar(c) ==
    CASE c = "A" -> "a" [] c = "B" -> "b" [] c = "C" -> "c" [] c = "D" -> "d"
      [] c = "E" -> "e" [] c = "F" -> "f" [] c = "G" -> "g" [] c = "H" -> "h"
      [] c = "I" -> "i" [] c = "J" -> "j" [] c = "K" -> "k" [] c = "L" -> "l"
      [] c = "M" -> "m" [] c = "N" -> "n" [] c = "O" -> "o" [] c = "P" -> "p"
      [] c = "Q" -> "q" [] c = "R" -> "r" [] c = "S" -> "s" [] c = "T" -> "t"
      [] c = "U" -> "u" [] c = "V" -> "v" [] c = "W" -> "w" [] c = "X" -> "x"
      [] c = "Y" -> "y" [] c = "Z" -> "z" [] OTHER -> c

\* str.lower()
Lower(s) == [k \in 1..Len(s) |-> LowerChar(s[k])]

\* Position of the first character of s at or after i that is not
\* whitespace, Len(s)+1 when there is none (greedy \s*).
RECURSIVE SkipSpace(_, _)
SkipSpace(s, i) ==
    IF i <= Len(s) /\ IsSpace(s[i]) THEN SkipSpace(s, i + 1) ELSE i

\* Position of the last character of s at or before j that is not
\* whitespace, 0 when there is none.
RECURSIVE SkipSpaceBack(_, _)
SkipSpaceBack(s, j) ==
    IF j >= 1 /\ IsSpace(s[j]) THEN SkipSpaceBack(s, j - 1) ELSE j

\* str.strip()
Strip(s) == Slice(s, SkipSpace(s, 1), SkipSpaceBack(s, Len(s)))

\* Position of the first occurrence of character c in s at or after i,
\* 0 when there is none.
RECURSIVE IndexFrom(_, _, _)
IndexFrom(s, c, i) ==
    IF i > Len(s) THEN 0
    ELSE IF s[i] = c THEN i
    ELSE IndexFrom(s, c, i + 1)

\* str.split(c) for a one-character separator: always at least one piece.
RECURSIVE Split(_, _)
Split(s, c) ==
    LET k == IndexFrom(s, c, 1)
    IN  IF k = 0 THEN <<s>>
        ELSE <<Slice(s, 1, k - 1)>> \o Split(Slice(s, k + 1, Len(s)), c)

\* c.join(parts)
RECURSIVE Join(_, _)
Join(parts, c) ==
    IF Len(parts) = 0 THEN <<>>
    ELSE IF Len(parts) = 1 THEN parts[1]
    ELSE parts[1] \o <<c>> \o Join(Tail(parts), c)

\* str.count(c, 0, j): occurrences of character c among the first j
\* characters of s.
Count(s, c, j) == Cardinality({k \in 1..j : s[k] = c})

\* str(n) for n >= 0
DigitChar(d) ==
    CASE d = 0 -> "0" [] d = 1 -> "1" [] d = 2 -> "2" [] d = 3 -> "3"
      [] d = 4 -> "4" [] d = 5 -> "5" [] d = 6 -> "6" [] d = 7 -> "7"
      [] d = 8 -> "8" [] d = 9 -> "9"

RECURSIVE Str(_)
Str(n) == IF n < 10 THEN <<DigitChar(n)>>
          ELSE Str(n \div 10) \o <<DigitChar(n % 10)>>

\* ---------------------------------------------------------- literals
S_def      == <<"d","e","f">>
S_class    == <<"c","l","a","s","s">>
S_async    == <<"a","s","y","n","c">>
S_def_sp   == <<"d","e","f"," ">>
S_class_sp == <<"c","l","a","s","s"," ">>
S_async_def_sp == <<"a","s","y","n","c"," ","d","e","f"," ">>
S_self     == <<"s","e","l","f">>
S_dot_open == <<".","o","p","e","n">>
S_database == <<"d","a","t","a","b","a","s","e">>
S_http     == <<"h","t","t","p">>

\* (connect|connection|cursor|execute|query), in the order of the alternation
DatabaseWords ==
    << <<"c","o","n","n","e","c","t">>,
       <<"c","o","n","n","e","c","t","i","o","n">>,
       <<"c","u","r","s","o","r">>,
       <<"e","x","e","c","u","t","e">>,
       <<"q","u","e","r","y">> >>

\* (get|post|put|delete|request)
HttpWords ==
    << <<"g","e","t">>,
       <<"p","o","s","t">>,
       <<"p","u","t">>,
       <<"d","e","l","e","t","e">>,
       <<"r","e","q","u","e","s","t">> >>

\* (config|settings|resource|data_|input_|output_)
ConfigWords ==
    << <<"c","o","n","f","i","g">>,
       <<"s","e","t","t","i","n","g","s">>,
       <<"r","e","s","o","u","r","c","e">>,
       <<"d","a","t","a","_">>,
       <<"i","n","p","u","t","_">>,
       <<"o","u","t","p","u","t","_">> >>

\* Index of the first alternative of words that matches s at position i,
\* 0 when none does (a regex alternation tries its branches left to right).
FirstAlt(s, i, words) ==
    LET hits == {k \in 1..Len(words) : StartsWithAt(s, i, words[k])}
    IN  IF hits = {} THEN 0
        ELSE CHOOSE k \in hits : \A j \in hits : k <= j

\* End (exclusive) of the run of characters satisfying [a-zA-Z0-9_] that
\* starts at i (greedy \w* / [a-zA-Z0-9_]*).
RECURSIVE WordEnd(_, _)
WordEnd(s, i) ==
    IF i <= Len(s) /\ IsWordChar(s[i]) THEN WordEnd(s, i + 1) ELSE i

\* ------------------------------------------- debug_graph.parse_symbols
\* One attempt of
\*   ^\s*(async\s+)?(def|class)\s+([a-zA-Z_][a-zA-Z0-9_]*)   (re.MULTILINE)
\* at position p.  ^ holds at the start of the text and after every
\* newline; \s* is greedy and \s includes the newline.
MatchDecl(code, p) ==
    LET atBol   == p = 1 \/ (p - 1 <= Len(code) /\ code[p - 1] = NL)
        q       == SkipSpace(code, p)
        isAsync == /\ StartsWithAt(code, q, S_async)
                   /\ q + 5 <= Len(code)
                   /\ IsSpace(code[q + 5])
        k       == IF isAsync THEN SkipSpace(code, q + 5) ELSE q
        keyword == IF StartsWithAt(code, k, S_def) THEN "def"
                   ELSE IF StartsWithAt(code, k, S_class) THEN "class"
                   ELSE "none"
        a       == k + (IF keyword = "def" THEN 3 ELSE 5)
        n       == SkipSpace(code, a)
        ok      == /\ atBol
                   /\ keyword # "none"
                   /\ a <= Len(code) /\ IsSpace(code[a])
                   /\ n <= Len(code) /\ IsIdentStart(code[n])
    IN  [ok      |-> ok,
         start   |-> p,
         kwpos   |-> k,
         keyword |-> keyword,
         name    |-> IF ok THEN Slice(code, n, WordEnd(code, n) - 1) ELSE <<>>,
         end     |-> IF ok THEN WordEnd(code, n) ELSE p]

\* pattern.finditer(code): the non-overlapping matches, left to right,
\* scanning from position p.
RECURSIVE FindIter(_, _)
FindIter(code, p) ==
    IF p > Len(code) + 1 THEN <<>>
    ELSE LET m == MatchDecl(code, p)
         IN  IF m.ok THEN <<m>> \o FindIter(code, m.end)
             ELSE FindIter(code, p + 1)

\* The symbol record built from one match (debug_graph.py lines 21-25).
SymbolOf(code, m) ==
    [name |-> m.name,
     type |-> IF m.keyword = "def" THEN "function" ELSE "class",
     line |-> Count(code, NL, m.start - 1) + 1]

parse_symbols(code) ==
    LET ms == FindIter(code, 1)
    IN  [i \in 1..Len(ms) |-> SymbolOf(code, ms[i])]

\* ------------------------------------ graph_builder resource extractor
\* re.search(r"\((.*?)\)", line): the first "(" and the first ")" after
\* it; names between them, split on commas.
CleanParam(param) ==
    Strip(Split(Split(Strip(param), ":")[1], "=")[1])

_extract_function_params(func_def_line) ==
    LET i == IndexFrom(func_def_line, "(", 1)
        j == IF i = 0 THEN 0 ELSE IndexFrom(func_def_line, ")", i + 1)
    IN  IF j = 0 THEN {}
        ELSE LET parts == Split(Slice(func_def_line, i + 1, j - 1), ",")
             IN  {CleanParam(parts[k]) : k \in 1..Len(parts)}
                     \ {<<>>, S_self}

\* re.findall(r'\.open\s*\(\s*[\'"]([^\'"]+)[\'"]', s) scanning from i:
\* the set of captured literals.
IsQuote(c) == c \in {"'", "\""}

RECURSIVE QuoteFrom(_, _)
QuoteFrom(s, i) ==
    IF i > Len(s) THEN 0
    ELSE IF IsQuote(s[i]) THEN i
    ELSE QuoteFrom(s, i + 1)

FileMatchAt(s, i) ==
    LET par == SkipSpace(s, i + 5)
        quo == SkipSpace(s, par + 1)
        clo == QuoteFrom(s, quo + 1)
        ok  == /\ StartsWithAt(s, i, S_dot_open)
               /\ par <= Len(s) /\ s[par] = "("
               /\ quo <= Len(s) /\ IsQuote(s[quo])
               /\ clo > quo + 1
    IN  [ok |-> ok,
         group |-> IF ok THEN Slice(s, quo + 1, clo - 1) ELSE <<>>,
         end |-> IF ok THEN clo + 1 ELSE i]

RECURSIVE FileMatches(_, _)
FileMatches(s, i) ==
    IF i > Len(s) THEN {}
    ELSE LET m == FileMatchAt(s, i)
         IN  IF m.ok THEN {m.group} \cup FileMatches(s, m.end)
             ELSE FileMatches(s, i + 1)

\* re.findall(r"(connect|connection|cursor|execute|query)", s) is not empty
DatabaseMatches(s) ==
    \E i \in 1..Len(s) : FirstAlt(s, i, DatabaseWords) # 0

\* re.findall(r"(get|post|put|delete|request)\s*\(", s) is not empty
HttpMatches(s) ==
    \E i \in 1..Len(s) :
        LET k == FirstAlt(s, i, HttpWords)
        IN  /\ k # 0
            /\ LET par == SkipSpace(s, i + Len(HttpWords[k]))
               IN  par <= Len(s) /\ s[par] = "("

\* re.findall(r"\b(config|settings|resource|data_|input_|output_)\w*", s)
\* scanning from i: findall returns the text of the single group, not the
\* whole match.
RECURSIVE ConfigMatches(_, _)
ConfigMatches(s, i) ==
    IF i > Len(s) THEN {}
    ELSE LET k == IF i = 1 \/ ~IsWordChar(s[i - 1])
                  THEN FirstAlt(s, i, ConfigWords) ELSE 0
         IN  IF k # 0
             THEN {ConfigWords[k]}
                      \cup ConfigMatches(s, WordEnd(s, i + Len(ConfigWords[k])))
             ELSE ConfigMatches(s, i + 1)

\* f"{resource_type}_{len(resources)}"
SynthId(resource_type, resources) ==
    resource_type \o <<"_">> \o Str(Cardinality(resources))

\* The four patterns applied, in order, to one line (graph_builder.py
\* lines 162-172).
ApplyPatterns(resources, line) ==
    LET s  == Lower(line)
        r1 == resources \cup FileMatches(s, 1)
        r2 == IF DatabaseMatches(s)
              THEN r1 \cup {SynthId(S_database, r1)} ELSE r1
        r3 == IF HttpMatches(s)
              THEN r2 \cup {SynthId(S_http, r2)} ELSE r2
    IN  r3 \cup ConfigMatches(s, 1)

IsComment(line) == StartsWith(Strip(line), <<"#">>)

IsDefLine(line) ==
    \/ StartsWith(Strip(line), S_def_sp)
    \/ StartsWith(Strip(line), S_async_def_sp)

\* The pattern loop over lines[i..], accumulating into resources.
RECURSIVE PatternPass(_, _, _)
PatternPass(resources, lines, i) ==
    IF i > Len(lines) THEN resources
    ELSE PatternPass(IF IsComment(lines[i]) THEN resources
                     ELSE ApplyPatterns(resources, lines[i]),
                     lines, i + 1)

_extract_resources_from_function(func_code) ==
    LET lines  == Split(func_code, NL)
        params == UNION {_extract_function_params(lines[i]) :
                            i \in {k \in 1..Len(lines) : IsDefLine(lines[k])}}
    IN  PatternPass(params, lines, 1)

\* ------------------------------------------------------------ inputs
\* The lines source texts are made of.
\* 'def f(x, y):'
L_def_f_xy == <<"d","e","f"," ","f","(","x",","," ","y",")",":">>

\* 'def f():'
L_def_f == <<"d","e","f"," ","f","(",")",":">>

\* 'def x(y, z):'
L_def_x_yz == <<"d","e","f"," ","x","(","y",","," ","z",")",":">>

\* 'def g(): db.execute(q)'
L_def_g_exec == <<"d","e","f"," ","g","(",")",":"," ","d","b",".","e","x","e","c","u","t","e","(","q",")">>

\* '    db.execute(q)'
L_exec == <<" "," "," "," ","d","b",".","e","x","e","c","u","t","e","(","q",")">>

\* "    open('a.txt')"
L_open == <<" "," "," "," ","o","p","e","n","(","'","a",".","t","x","t","'",")">>

\* ''
L_blank == <<>>

\* "    s.open('A.t')"
L_dot_open == <<" "," "," "," ","s",".","o","p","e","n","(","'","A",".","t","'",")">>

\* 'class C:'
L_class == <<"c","l","a","s","s"," ","C",":">>

\* '    data_file'
L_data_file == <<" "," "," "," ","d","a","t","a","_","f","i","l","e">>

\* 'def g(): data_path'
L_def_g_data_path == <<"d","e","f"," ","g","(",")",":"," ","d","a","t","a","_","p","a","t","h">>

\* '    # config_file'
L_hash_config == <<" "," "," "," ","#"," ","c","o","n","f","i","g","_","f","i","l","e">>

\* '    config_file'
L_config_file == <<" "," "," "," ","c","o","n","f","i","g","_","f","i","l","e">>

\* Three vocabularies: functions that repeat names, share parameters, collide
\* with a parameter name and use a database verb; and a function with
\* file-opening bodies, blank lines and a class.
DeclPool == {L_def_f_xy, L_def_f, L_def_x_yz, L_def_g_exec, L_exec}

FilePool == {L_def_f_xy, L_open, L_blank, L_dot_open, L_class}

\* Functions whose bodies name configuration-like variables, in code and
\* in a comment.
ConfigPool ==
    {L_def_f, L_data_file, L_def_g_data_path, L_hash_config, L_config_file}

Pools == {DeclPool, FilePool, ConfigPool}

RECURSIVE LineSeqs(_, _)
LineSeqs(pool, n) ==
    IF n = 0 THEN {<<>>}
    ELSE LET shorter == LineSeqs(pool, n - 1)
         IN  shorter \cup
             {Append(ls, l) : ls \in {x \in shorter : Len(x) = n - 1},
                              l \in pool}

\* Every text of 1..MaxLines lines of one pool, joined by newlines (a text
\* whose last line is empty ends with a newline; the empty text is the
\* single empty line).
Texts ==
    UNION {{Join(ls, NL) : ls \in LineSeqs(pool, MaxLines) \ {<<>>}} :
              pool \in Pools}

\* A later analysis of the same file: unchanged, or with its first or its
\* last line deleted.
Edits(text) ==
    LET ls == Split(text, NL)
    IN  {text} \cup (IF Len(ls) > 1
                     THEN {Join(Tail(ls), NL), Join(SubSeq(ls, 1, Len(ls) - 1), NL)}
                     ELSE {})

\* ------------------------------------------------------- dict / objects
\* A dict is a function from keys to object addresses; heap maps the
\* address of every live set object to its elements.  Two dicts holding
\* the same address share one set object.
EmptyDict == [k \in {} |-> k]

Put(d, k, v) == [x \in DOMAIN d \cup {k} |-> IF x = k THEN v ELSE d[x]]

Remove(d, k) == [x \in DOMAIN d \ {k} |-> d[x]]

\* Address of the set bound to operation_resources[func_name]
OpAddr(func_name) == <<"operation_resources", func_name>>

\* Address of the set that defaultdict(set) creates for a resource
ResAddr(resource) == <<"resource_dependencies", resource>>

\* The mapping a dict denotes: key -> elements of its set
Deref(h, d) == [k \in DOMAIN d |-> h[d[k]]]

\* dict(d): a new dict with the same keys bound to the same objects
DictCopy(d) == [k \in DOMAIN d |-> d[k]]

\* ------------------------------------- extract_resource_dependencies
IsDeclLine(line) ==
    \/ StartsWith(Strip(line), S_def_sp)
    \/ StartsWith(Strip(line), S_class_sp)
    \/ StartsWith(Strip(line), S_async_def_sp)

\* lines[start_line:end_line] joined (graph_builder.py lines 98-111); lines
\* are numbered from 1 here, so the slice starts at symbol.line.
FuncBody(symbol, code) ==
    LET lines == Split(code, NL)
        stops == {i \in (symbol.line + 1)..Len(lines) : IsDeclLine(lines[i])}
        last  == IF stops = {} THEN Len(lines)
                 ELSE (CHOOSE i \in stops : \A j \in stops : i <= j) - 1
    IN  Join(Slice(lines, symbol.line, last), NL)

\* ClearIndex without the two clear() calls
ClearIndex_NoClear(st) == st

\* self.resource_dependencies.clear(); self.operation_resources.clear()
ClearIndex(st) ==
    [st EXCEPT !.rd = EmptyDict, !.ops = EmptyDict]

\* self.operation_resources[func_name] = resources
BindOperation(st, func_name, resources) ==
    [st EXCEPT !.heap = Put(st.heap, OpAddr(func_name), resources),
               !.ops  = Put(st.ops, func_name, OpAddr(func_name))]

\* AddDependencies where the set of each resource is created but
\* func_name is not added to it
AddDependencies_NoAdd(st, func_name, resources) ==
    LET old(r) == IF r \in DOMAIN st.rd THEN st.heap[st.rd[r]] ELSE {}
    IN  [st EXCEPT
           !.heap = [a \in DOMAIN st.heap \cup {ResAddr(r) : r \in resources} |->
                        IF \E r \in resources : a = ResAddr(r)
                        THEN LET r == CHOOSE x \in resources : a = ResAddr(x)
                             IN  old(r)
                        ELSE st.heap[a]],
           !.rd   = [r \in DOMAIN st.rd \cup resources |-> ResAddr(r)]]

\* for resource in resources:
\*     self.resource_dependencies[resource].add(func_name)
AddDependencies(st, func_name, resources) ==
    LET old(r) == IF r \in DOMAIN st.rd THEN st.heap[st.rd[r]] ELSE {}
    IN  [st EXCEPT
           !.heap = [a \in DOMAIN st.heap \cup {ResAddr(r) : r \in resources} |->
                        IF \E r \in resources : a = ResAddr(r)
                        THEN LET r == CHOOSE x \in resources : a = ResAddr(x)
                             IN  old(r) \cup {func_name}
                        ELSE st.heap[a]],
           !.rd   = [r \in DOMAIN st.rd \cup resources |-> ResAddr(r)]]

\* One iteration of the loop over symbols (lines 95-121)
RecordSymbol(st, symbol, code) ==
    IF symbol.type = "function"
    THEN LET resources ==
                 _extract_resources_from_function(FuncBody(symbol, code))
         IN  AddDependencies(BindOperation(st, symbol.name, resources),
                             symbol.name, resources)
    ELSE st

RECURSIVE SymbolLoop(_, _, _, _)
SymbolLoop(st, symbols, code, i) ==
    IF i > Len(symbols) THEN st
    ELSE SymbolLoop(RecordSymbol(st, symbols[i], code), symbols, code, i + 1)

\* The index after extract_resource_dependencies(symbols, code) on a
\* builder whose index was st.
extract_resource_dependencies(st, symbols, code) ==
    SymbolLoop(ClearIndex(st), symbols, code, 1)

\* ------------------------------------------- build_dependency_graph
\* build_dependency_graph with the two loops in the other order: the
\* operation tag is written last.
build_dependency_graph_OperationsLast(st) ==
    LET rdv   == [r \in DOMAIN st.rd |-> st.heap[st.rd[r]]]
        edges == UNION {{<<op, r>> : op \in rdv[r]} : r \in DOMAIN rdv}
        nodes == DOMAIN st.ops \cup DOMAIN st.rd \cup {e[1] : e \in edges}
    IN  [nodes |-> [n \in nodes |->
                       IF n \in DOMAIN st.ops THEN "operation"
                       ELSE IF n \in DOMAIN st.rd THEN "resource"
                       ELSE "untyped"],
         edges |-> edges]

\* nodes: node -> its "type" attribute; edges: set of <<source, target>>.
\* add_node on an existing node overwrites the attribute; add_edge adds
\* missing endpoints without attributes.
build_dependency_graph(st) ==
    LET rdv   == Deref(st.heap, st.rd)
        edges == UNION {{<<op, r>> : op \in rdv[r]} : r \in DOMAIN rdv}
        nodes == DOMAIN st.ops \cup DOMAIN st.rd \cup {e[1] : e \in edges}
    IN  [nodes |-> [n \in nodes |->
                       IF n \in DOMAIN st.rd THEN "resource"
                       ELSE IF n \in DOMAIN st.ops THEN "operation"
                       ELSE "untyped"],
         edges |-> edges]

\* ------------------------------------------------ analyze_dependencies
RECURSIVE Sum(_, _)
Sum(f, keys) ==
    IF keys = {} THEN 0
    ELSE LET k == CHOOSE x \in keys : TRUE
         IN  f[k] + Sum(f, keys \ {k})

\* sum(values) / len(values) as the fraction num/den, then * 1.5 = 3/2;
\* count > avg_usage * 1.5 compares count with that fraction.
Mean(f) == [num |-> Sum(f, DOMAIN f), den |-> Cardinality(DOMAIN f)]

TimesOneAndHalf(q) == [num |-> 3 * q.num, den |-> 2 * q.den]

\* count >= avg_usage * 1.5
GreaterThan_OrEqual(count, q) == count * q.den >= q.num

GreaterThan(count, q) == count * q.den > q.num

\* insights; critical_resources is a list without repetitions in the code
\* and a set here.  error is the exception the call raises, if any.
analyze_dependencies(st) ==
    LET rdv   == Deref(st.heap, st.rd)
        opv   == Deref(st.heap, st.ops)
        usage == [r \in DOMAIN rdv |-> Cardinality(rdv[r])]
        guard == Cardinality(DOMAIN rdv) > 0 /\ DOMAIN usage # {}
    IN  [total_operations |-> Cardinality(DOMAIN opv),
         total_resources  |-> Cardinality(DOMAIN rdv),
         resource_usage   |-> usage,
         operation_dependencies |->
             [o \in DOMAIN opv |-> Cardinality(opv[o])],
         shared_resources |->
             [r \in {x \in DOMAIN rdv : Cardinality(rdv[x]) > 1} |-> rdv[r]],
         critical_resources |->
             IF guard /\ Mean(usage).den # 0
             THEN {r \in DOMAIN usage :
                      GreaterThan(usage[r], TimesOneAndHalf(Mean(usage)))}
             ELSE {},
         error |-> IF guard /\ Mean(usage).den = 0
                   THEN "ZeroDivisionError" ELSE "none"]

\* ------------------------------------------------------------- state
VARIABLES
    code,                   \* the text being analysed
    symbols,                \* the symbol list parsed from it
    heap,                   \* live set objects: address -> elements
    resource_dependencies,  \* builder: resource -> address of its set
    operation_resources,    \* builder: operation -> address of its set
    resource_deps,          \* caller: first returned mapping
    op_resources,           \* caller: second returned mapping
    G,                      \* caller: <<graph>> once built, else <<>>
    insights,               \* caller: <<insights>> once analysed, else <<>>
    pc,                     \* caller's position in the analysis pass
    instOf,                 \* interleaved callers: caller -> its builder
    builders,               \* interleaved callers: builder -> its index
    thread                  \* interleaved callers: caller -> its locals

vars == <<code, symbols, heap, resource_dependencies, operation_resources,
          resource_deps, op_resources, G, insights, pc,
          instOf, builders, thread>>

\* The state of the single caller
passVars == <<code, symbols, heap, resource_dependencies,
              operation_resources, resource_deps, op_resources, G, insights,
              pc>>

\* The state of the two interleaved callers
threadVars == <<instOf, builders, thread>>

\* The index of a newly constructed builder
FreshBuilder == [heap |-> EmptyDict, rd |-> EmptyDict, ops |-> EmptyDict]

Callers == {1, 2}

\* A caller that has not called anything
IdleThread ==
    [pc |-> "idle", code |-> <<>>, symbols |-> <<>>, i |-> 1,
     func_name |-> <<>>, todo |-> {}, result |-> <<>>, graph |-> <<>>]

NoThreads ==
    /\ instOf = [c \in Callers |-> c]
    /\ builders = [b \in Callers |-> FreshBuilder]
    /\ thread = [c \in Callers |-> IdleThread]

\* The builder's index as one value
Builder ==
    [heap |-> heap, rd |-> resource_dependencies, ops |-> operation_resources]

\* The two mappings of the index, by value
ResourceToOperations == Deref(heap, resource_dependencies)

OperationToResources == Deref(heap, operation_resources)

\* Objects no dict refers to any more are gone
Collect(h, dicts) ==
    LET live == UNION {{d[k] : k \in DOMAIN d} : d \in dicts}
    IN  [a \in DOMAIN h \cap live |-> h[a]]

\* SymbolGraphBuilder.__init__ (graph_builder.py lines 9-15)
Init ==
    /\ code = <<>>
    /\ symbols = <<>>
    /\ heap = EmptyDict
    /\ resource_dependencies = EmptyDict
    /\ operation_resources = EmptyDict
    /\ resource_deps = EmptyDict
    /\ op_resources = EmptyDict
    /\ G = <<>>
    /\ insights = <<>>
    /\ pc = "start"
    /\ NoThreads

\* symbols = builder.parse_symbols(text): the first text is any text, a
\* later one an edit of the previous one.
ParseSymbols ==
    /\ pc \in {"start", "analyzed"}
    /\ \E text \in (IF pc = "start" THEN Texts ELSE Edits(code)) :
          /\ code' = text
          /\ symbols' = parse_symbols(text)
    /\ pc' = "parsed"
    /\ UNCHANGED <<heap, resource_dependencies, operation_resources,
                   resource_deps, op_resources, G, insights>>
    /\ UNCHANGED threadVars

\* resource_deps, op_resources =
\*     builder.extract_resource_dependencies(symbols, code)
ExtractResourceDependencies ==
    /\ pc = "parsed"
    /\ LET st == extract_resource_dependencies(Builder, symbols, code)
       IN  /\ resource_dependencies' = st.rd
           /\ operation_resources' = st.ops
           /\ resource_deps' = DictCopy(st.rd)
           /\ op_resources' = DictCopy(st.ops)
           /\ heap' = Collect(st.heap, {st.rd, st.ops})
    /\ pc' = "extracted"
    /\ UNCHANGED <<code, symbols, G, insights>>
    /\ UNCHANGED threadVars

\* G = builder.build_dependency_graph()
BuildDependencyGraph ==
    /\ pc \in {"extracted", "mutated"}
    /\ G' = <<build_dependency_graph(Builder)>>
    /\ pc' = "built"
    /\ UNCHANGED <<code, symbols, heap, resource_dependencies,
                   operation_resources, resource_deps, op_resources,
                   insights>>
    /\ UNCHANGED threadVars

\* insights = analyze_dependencies(builder)
AnalyzeDependencies ==
    /\ pc = "built"
    /\ insights' = <<analyze_dependencies(Builder)>>
    /\ pc' = "analyzed"
    /\ UNCHANGED <<code, symbols, heap, resource_dependencies,
                   operation_resources, resource_deps, op_resources, G>>
    /\ UNCHANGED threadVars

Next ==
    \/ ParseSymbols
    \/ ExtractResourceDependencies
    \/ BuildDependencyGraph
    \/ AnalyzeDependencies

Spec == Init /\ [][Next]_vars


\* ------------------------------------------- a caller that mutates
\* The element the caller adds to a returned set
S_tmp == <<"t","m","p">>

\* The objects the two returned mappings refer to
ReturnedObjects ==
    {resource_deps[k] : k \in DOMAIN resource_deps}
        \cup {op_resources[k] : k \in DOMAIN op_resources}

\* resource_deps[k].add("tmp") or op_resources[k].add("tmp"), once, on the
\* mappings the first call returned
MutateReturnedSet ==
    /\ pc = "extracted"
    /\ G = <<>>
    /\ \E a \in ReturnedObjects :
          heap' = [heap EXCEPT ![a] = @ \cup {S_tmp}]
    /\ pc' = "mutated"
    /\ UNCHANGED <<code, symbols, resource_dependencies, operation_resources,
                   resource_deps, op_resources, G, insights>>
    /\ UNCHANGED threadVars

\* del resource_deps[k] or del op_resources[k], once, on the mappings the
\* first call returned
MutateReturnedMapping ==
    /\ pc = "extracted"
    /\ G = <<>>
    /\ \/ \E k \in DOMAIN resource_deps :
             /\ resource_deps' = Remove(resource_deps, k)
             /\ op_resources' = op_resources
       \/ \E k \in DOMAIN op_resources :
             /\ op_resources' = Remove(op_resources, k)
             /\ resource_deps' = resource_deps
    /\ pc' = "mutated"
    /\ UNCHANGED <<code, symbols, heap, resource_dependencies,
                   operation_resources, G, insights>>
    /\ UNCHANGED threadVars

\* Texts of at most MaxCopyLines lines
CopyTexts == {t \in Texts : Len(Split(t, NL)) <= MaxCopyLines}

\* A new builder and a parsed text of CopyTexts
InitCopy ==
    /\ code \in CopyTexts
    /\ symbols = parse_symbols(code)
    /\ heap = EmptyDict
    /\ resource_dependencies = EmptyDict
    /\ operation_resources = EmptyDict
    /\ resource_deps = EmptyDict
    /\ op_resources = EmptyDict
    /\ G = <<>>
    /\ insights = <<>>
    /\ pc = "parsed"
    /\ NoThreads

NextCopy ==
    \/ ParseSymbols
    \/ ExtractResourceDependencies
    \/ MutateReturnedSet
    \/ MutateReturnedMapping
    \/ BuildDependencyGraph
    \/ AnalyzeDependencies

SpecCopy == InitCopy /\ [][NextCopy]_vars

\* ------------------------------------------- two interleaved callers
\* Two callers run extract_resource_dependencies and then
\* build_dependency_graph, each statement of extract_resource_dependencies
\* being one step; they use one builder or one builder each.
SharedPool == {L_def_f_xy, L_def_x_yz}

SharedTexts ==
    {Join(ls, NL) : ls \in LineSeqs(SharedPool, MaxSharedLines) \ {<<>>}}

CollectStore(st) == [st EXCEPT !.heap = Collect(st.heap, {st.rd, st.ops})]

\* The two mappings of an index, by value, as the call returns them
Mappings(st) == [rd |-> Deref(st.heap, st.rd), ops |-> Deref(st.heap, st.ops)]

InitShared ==
    /\ code = <<>>
    /\ symbols = <<>>
    /\ heap = EmptyDict
    /\ resource_dependencies = EmptyDict
    /\ operation_resources = EmptyDict
    /\ resource_deps = EmptyDict
    /\ op_resources = EmptyDict
    /\ G = <<>>
    /\ insights = <<>>
    /\ pc = "start"
    /\ instOf \in {[c \in Callers |-> 1], [c \in Callers |-> c]}
    /\ builders = [b \in Callers |-> FreshBuilder]
    /\ \E texts \in [Callers -> SharedTexts] :
          thread = [c \in Callers |->
                       [IdleThread EXCEPT !.pc = "clear_rd",
                                          !.code = texts[c],
                                          !.symbols = parse_symbols(texts[c])]]

\* self.resource_dependencies.clear()                         (line 91)
ClearResourceDependencies(c) ==
    /\ thread[c].pc = "clear_rd"
    /\ builders' = [builders EXCEPT ![instOf[c]] =
                       CollectStore([@ EXCEPT !.rd = EmptyDict])]
    /\ thread' = [thread EXCEPT ![c].pc = "clear_ops"]
    /\ UNCHANGED <<passVars, instOf>>

\* self.operation_resources.clear()                           (line 92)
ClearOperationResources(c) ==
    /\ thread[c].pc = "clear_ops"
    /\ builders' = [builders EXCEPT ![instOf[c]] =
                       CollectStore([@ EXCEPT !.ops = EmptyDict])]
    /\ thread' = [thread EXCEPT ![c].pc = "loop", ![c].i = 1]
    /\ UNCHANGED <<passVars, instOf>>

\* One symbol of the loop, up to self.operation_resources[func_name] =
\* resources                                              (lines 95-117)
BindSymbol(c) ==
    LET t   == thread[c]
        sym == t.symbols[t.i]
    IN  /\ t.pc = "loop"
        /\ t.i <= Len(t.symbols)
        /\ IF sym.type = "function"
           THEN LET resources ==
                        _extract_resources_from_function(FuncBody(sym, t.code))
                IN  /\ builders' = [builders EXCEPT ![instOf[c]] =
                           CollectStore(BindOperation(@, sym.name, resources))]
                    /\ thread' = [thread EXCEPT
                           ![c].func_name = sym.name,
                           ![c].todo = resources,
                           ![c].pc = IF resources = {} THEN "loop" ELSE "add",
                           ![c].i = IF resources = {} THEN t.i + 1 ELSE t.i]
           ELSE /\ builders' = builders
                /\ thread' = [thread EXCEPT ![c].i = t.i + 1]
        /\ UNCHANGED <<passVars, instOf>>

\* The same step on the index of builder 1 whatever the caller's builder
\* is, as if the dict were an attribute of the class.
AddDependency_ClassLevel(c) ==
    LET t == thread[c]
    IN  /\ t.pc = "add"
        /\ \E r \in t.todo :
              /\ builders' = [builders EXCEPT ![1] =
                     AddDependencies(@, t.func_name, {r})]
              /\ thread' = [thread EXCEPT
                     ![c].todo = t.todo \ {r},
                     ![c].pc = IF t.todo = {r} THEN "loop" ELSE "add",
                     ![c].i = IF t.todo = {r} THEN t.i + 1 ELSE t.i]
        /\ UNCHANGED <<passVars, instOf>>

\* self.resource_dependencies[resource].add(func_name) for one resource of
\* the for loop, in any order                              (lines 120-121)
AddDependency(c) ==
    LET t == thread[c]
    IN  /\ t.pc = "add"
        /\ \E r \in t.todo :
              /\ builders' = [builders EXCEPT ![instOf[c]] =
                     AddDependencies(@, t.func_name, {r})]
              /\ thread' = [thread EXCEPT
                     ![c].todo = t.todo \ {r},
                     ![c].pc = IF t.todo = {r} THEN "loop" ELSE "add",
                     ![c].i = IF t.todo = {r} THEN t.i + 1 ELSE t.i]
        /\ UNCHANGED <<passVars, instOf>>

\* return dict(self.resource_dependencies), dict(self.operation_resources)
\*                                                            (line 123)
ReturnMappings(c) ==
    LET t == thread[c]
    IN  /\ t.pc = "loop"
        /\ t.i > Len(t.symbols)
        /\ thread' = [thread EXCEPT
               ![c].result = <<Mappings(builders[instOf[c]])>>,
               ![c].pc = "build"]
        /\ UNCHANGED <<passVars, instOf, builders>>

\* G = builder.build_dependency_graph()
BuildGraph(c) ==
    /\ thread[c].pc = "build"
    /\ thread' = [thread EXCEPT
           ![c].graph = <<build_dependency_graph(builders[instOf[c]])>>,
           ![c].pc = "done"]
    /\ UNCHANGED <<passVars, instOf, builders>>

NextShared ==
    \E c \in Callers :
        \/ ClearResourceDependencies(c)
        \/ ClearOperationResources(c)
        \/ BindSymbol(c)
        \/ AddDependency(c)
        \/ ReturnMappings(c)
        \/ BuildGraph(c)

SpecShared == InitShared /\ [][NextShared]_vars

\* ================================================================ claims
\* The index is complete: the last extract_resource_dependencies call has
\* returned.
Extracted == pc \in {"extracted", "built", "analyzed"}

S_database_ == <<"d","a","t","a","b","a","s","e","_">>

\* ------------------------------------------------------------------- C1
\* C1: after every extract_resource_dependencies call, r is in
\* operation_to_resources[o] if and only if o is in
\* resource_to_operations[r], for all operations o and resources r (an
\* absent key counts as the empty set).
C1_MirrorInvariant ==
    Extracted =>
        /\ \A o \in DOMAIN OperationToResources :
              \A r \in OperationToResources[o] :
                  /\ r \in DOMAIN ResourceToOperations
                  /\ o \in ResourceToOperations[r]
        /\ \A r \in DOMAIN ResourceToOperations :
              \A o \in ResourceToOperations[r] :
                  /\ o \in DOMAIN OperationToResources
                  /\ r \in OperationToResources[o]

\* ------------------------------------------------------------------- C2
\* The pairs (o, r) with r in operation_to_resources[o]
OperationResourcePairs ==
    UNION {{<<o, r>> : r \in OperationToResources[o]} :
              o \in DOMAIN OperationToResources}

\* C2: the edge set of the graph returned by build_dependency_graph is
\* exactly the set of pairs (o, r) with r in operation_to_resources[o], and
\* the edge count is the number of such pairs.
C2_EdgesAreIndexPairs ==
    pc = "built" =>
        /\ G[1].edges = OperationResourcePairs
        /\ Cardinality(G[1].edges) = Cardinality(OperationResourcePairs)

\* ------------------------------------------------------------------- C3
\* Number of matches re.findall finds for the database-verb pattern in s,
\* scanning from i.
RECURSIVE DatabaseMatchCount(_, _)
DatabaseMatchCount(s, i) ==
    IF i > Len(s) THEN 0
    ELSE LET k == FirstAlt(s, i, DatabaseWords)
         IN  IF k # 0
             THEN 1 + DatabaseMatchCount(s, i + Len(DatabaseWords[k]))
             ELSE DatabaseMatchCount(s, i + 1)

\* Matches of the database-verb pattern over the non-comment lines of the
\* body slice of a symbol.
RECURSIVE SumOver(_, _)
SumOver(f, i) == IF i > Len(f) THEN 0 ELSE f[i] + SumOver(f, i + 1)

BodyDatabaseMatches(symbol) ==
    LET lines == Split(FuncBody(symbol, code), NL)
    IN  SumOver([i \in 1..Len(lines) |->
                    IF IsComment(lines[i]) THEN 0
                    ELSE DatabaseMatchCount(Lower(lines[i]), 1)], 1)

\* Scenario D's input: the text declares exactly two functions, with
\* different names, and the body of each matches the database-verb
\* pattern once.
TwoDatabaseFunctions ==
    /\ Len(symbols) = 2
    /\ symbols[1].type = "function" /\ symbols[2].type = "function"
    /\ symbols[1].name # symbols[2].name
    /\ BodyDatabaseMatches(symbols[1]) = 1
    /\ BodyDatabaseMatches(symbols[2]) = 1

DatabaseIds ==
    {r \in DOMAIN ResourceToOperations : StartsWith(r, S_database_)}

\* C3: Scenario D: after extract_resource_dependencies on a text with two
\* distinctly named functions whose bodies each match the database-verb
\* pattern once, resource_to_operations has two distinct synthesized
\* database ids and each maps to exactly one operation.
C3_ScenarioD ==
    (Extracted /\ TwoDatabaseFunctions) =>
        /\ Cardinality(DatabaseIds) = 2
        /\ \A r \in DatabaseIds : Cardinality(ResourceToOperations[r]) = 1

\* ------------------------------------------------------------------- C4
\* C4: after any sequence of extract_resource_dependencies calls on one
\* builder, the index equals the index a fresh builder produces from the
\* last call's (symbols, text) alone; a repeated call with the same
\* arguments therefore gives the same keys and the same sets.
C4_ReplacesPriorState ==
    Extracted =>
        LET st == SymbolLoop(FreshBuilder, symbols, code, 1)
        IN  /\ ResourceToOperations = Deref(st.heap, st.rd)
            /\ OperationToResources = Deref(st.heap, st.ops)

\* C4 witness: a later call has returned, and the graph built after the
\* first call still shows a node that the index no longer has: the first
\* call's entries were dropped.
C4_Witness ==
    /\ pc = "extracted"
    /\ G # <<>>
    /\ \E n \in DOMAIN G[1].nodes :
          n \notin DOMAIN resource_dependencies \cup DOMAIN operation_resources

\* ------------------------------------------------------------------- C6
\* 1-based number of the line that holds position p of the text
LineAt(text, p) == Count(text, NL, p - 1) + 1

\* C6: each symbol returned by the regex symbol extractor has line equal to
\* the 1-based number of the line that contains its def/class keyword, also
\* when blank lines precede the declaration, and 1 <= line <= line count.
C6_LineOfKeyword ==
    pc # "start" =>
        LET ms == FindIter(code, 1)
        IN  /\ Len(symbols) = Len(ms)
            /\ \A i \in 1..Len(symbols) :
                  /\ symbols[i].line = LineAt(code, ms[i].kwpos)
                  /\ 1 <= symbols[i].line
                  /\ symbols[i].line <= Len(Split(code, NL))

\* ------------------------------------------------------------------- C7
S_x == <<"x">>
S_y == <<"y">>
S_f == <<"f">>
S_a_txt == <<"a",".","t","x","t">>

\* The body slice of the symbol has a non-comment line that is the call
\* open('a.txt'), with nothing before open.
CallsOpenLiteral(symbol) ==
    LET lines == Split(FuncBody(symbol, code), NL)
    IN  \E i \in 1..Len(lines) :
           ~IsComment(lines[i]) /\ Strip(lines[i]) = Strip(L_open)

\* symbols[i] is the last function record with its name, the one whose
\* resource set operation_to_resources keeps.
LastDeclaration(i) ==
    /\ symbols[i].type = "function"
    /\ \A j \in (i + 1)..Len(symbols) :
          symbols[j].type = "function" => symbols[j].name # symbols[i].name

\* C7: a body line calling open with a quoted literal path adds that path
\* to the function's resource set, together with the declared parameters;
\* for "def f(x, y):\n    open('a.txt')\n" the set of f has x, y and a.txt.
C7_OpenLiteralIsResource ==
    Extracted =>
        /\ \A i \in 1..Len(symbols) :
              (LastDeclaration(i) /\ CallsOpenLiteral(symbols[i])) =>
                  S_a_txt \in OperationToResources[symbols[i].name]
        /\ code = Join(<<L_def_f_xy, L_open, L_blank>>, NL) =>
              {S_x, S_y, S_a_txt} \subseteq OperationToResources[S_f]

\* ------------------------------------------------------------------- C8
\* Sum of the usage counts of all resources
TotalUsage ==
    Sum([r \in DOMAIN ResourceToOperations |->
            Cardinality(ResourceToOperations[r])],
        DOMAIN ResourceToOperations)

\* C8: analyze_dependencies returns as critical_resources exactly the
\* resources whose usage count is more than 1.5 times the mean usage count
\* (2 * usage * |resources| > 3 * sum of usages); with no resources the
\* list is empty and nothing is divided.
C8_CriticalThreshold ==
    pc = "analyzed" =>
        /\ insights[1].critical_resources =
              {r \in DOMAIN ResourceToOperations :
                  2 * Cardinality(ResourceToOperations[r])
                    * Cardinality(DOMAIN ResourceToOperations)
                  > 3 * TotalUsage}
        /\ insights[1].error = "none"
        /\ DOMAIN ResourceToOperations = {} =>
              insights[1].critical_resources = {}

\* C8 witness: an analysis that found a critical resource next to
\* resources that are not critical.
C8_Witness ==
    /\ pc = "analyzed"
    /\ insights[1].critical_resources # {}
    /\ insights[1].critical_resources # DOMAIN ResourceToOperations

\* ------------------------------------------------------------------- C9
\* C9 as stated: every edge of the returned graph goes from a node tagged
\* operation to a node tagged resource.
C9_EdgesOperationToResource ==
    pc = "built" =>
        \A e \in G[1].edges :
            /\ G[1].nodes[e[1]] = "operation"
            /\ G[1].nodes[e[2]] = "resource"

\* C9 amended: every edge goes from an operation name (a key of
\* operation_to_resources) to a node tagged resource; its source is tagged
\* operation unless that name is also a resource id, and then the merged
\* node is tagged resource.
C9_EdgesFromOperationNames ==
    pc = "built" =>
        \A e \in G[1].edges :
            /\ e[1] \in DOMAIN operation_resources
            /\ G[1].nodes[e[2]] = "resource"
            /\ IF e[1] \in DOMAIN resource_dependencies
               THEN G[1].nodes[e[1]] = "resource"
               ELSE G[1].nodes[e[1]] = "operation"

\* C9 witness: a graph in which an operation whose name is also a resource
\* id has an outgoing edge.
C9_Witness ==
    /\ pc = "built"
    /\ \E e \in G[1].edges :
          e[1] \in DOMAIN operation_resources \cap DOMAIN resource_dependencies

\* ------------------------------------------------------------------- C5
\* C5: the mappings extract_resource_dependencies returns are independent
\* copies: a caller's mutation of a returned mapping, or of a set stored in
\* it, leaves the builder's index unchanged.
C5_ReturnedCopiesIndependent ==
    [][pc' = "mutated" =>
          /\ ResourceToOperations' = ResourceToOperations
          /\ OperationToResources' = OperationToResources]_vars

\* ------------------------------------------------------------------ C10
\* What caller c gets when nothing else runs: the index a fresh builder
\* computes from its arguments.
SequentialIndex(c) ==
    SymbolLoop(FreshBuilder, thread[c].symbols, thread[c].code, 1)

\* C10: when every caller has its own builder instance, the mappings and
\* the graph each caller gets equal the sequential result, however the
\* callers' steps interleave.  (That a shared instance lets a caller see
\* an index that is no complete index is C10_Witness.)
C10_OwnInstanceIsSequential ==
    instOf[1] # instOf[2] =>
        \A c \in Callers :
            /\ thread[c].result # <<>> =>
                  thread[c].result[1] = Mappings(SequentialIndex(c))
            /\ thread[c].graph # <<>> =>
                  thread[c].graph[1] =
                      build_dependency_graph(SequentialIndex(c))

\* C10 witness: two callers share one instance, and a call has returned
\* mappings that are neither the empty index the builder had before the
\* calls nor the complete index of either call.
C10_Witness ==
    /\ instOf[1] = instOf[2]
    /\ \E c \in Callers :
          /\ thread[c].result # <<>>
          /\ thread[c].result[1] # Mappings(FreshBuilder)
          /\ \A d \in Callers :
                thread[c].result[1] # Mappings(SequentialIndex(d))

\* ------------------------------------------------------------------ C11
\* The whole matches of \b(config|settings|resource|data_|input_|output_)\w*
\* in s, scanning from i: each bare word that starts with one of the
\* prefixes, from its first character to the end of the word.
RECURSIVE WholeConfigWords(_, _)
WholeConfigWords(s, i) ==
    IF i > Len(s) THEN {}
    ELSE LET k == IF i = 1 \/ ~IsWordChar(s[i - 1])
                  THEN FirstAlt(s, i, ConfigWords) ELSE 0
             e == WordEnd(s, i + Len(ConfigWords[k]))
         IN  IF k # 0
             THEN {SubSeq(s, i, e - 1)} \cup WholeConfigWords(s, e)
             ELSE WholeConfigWords(s, i + 1)

\* The configuration-like words on the non-comment lines of the body slice
\* of the symbol, lower-cased as the pattern loop reads them.
BodyConfigWords(symbol) ==
    LET lines == Split(FuncBody(symbol, code), NL)
    IN  UNION {WholeConfigWords(Lower(lines[i]), 1) :
                  i \in {j \in 1..Len(lines) : ~IsComment(lines[j])}}

\* C11: for every non-comment body line, each bare word that starts with
\* config, settings, resource, data_, input_ or output_ is added whole to
\* the resource set of the function, so two functions whose bodies use
\* different such words share no resource on account of these words.
C11_ConfigWordAddedWhole ==
    Extracted =>
        /\ \A i \in 1..Len(symbols) :
              LastDeclaration(i) =>
                  BodyConfigWords(symbols[i])
                      \subseteq OperationToResources[symbols[i].name]
        /\ \A i, j \in 1..Len(symbols) :
              ( /\ LastDeclaration(i) /\ LastDeclaration(j)
                /\ symbols[i].name # symbols[j].name
                /\ BodyConfigWords(symbols[i]) # {}
                /\ BodyConfigWords(symbols[j]) # {}
                /\ BodyConfigWords(symbols[i])
                      \cap BodyConfigWords(symbols[j]) = {} ) =>
                  OperationToResources[symbols[i].name]
                      \cap OperationToResources[symbols[j].name] = {}

\* ------------------------------------------------------------------ C12
\* C12: in every index produced by extract_resource_dependencies each key
\* of resource_to_operations maps to a non-empty operation set, and every
\* id in the critical_resources of analyze_dependencies is a key of its
\* shared_resources: a resource used by one operation is never critical.
C12_CriticalIsShared ==
    Extracted =>
        /\ \A r \in DOMAIN ResourceToOperations :
              ResourceToOperations[r] # {}
        /\ pc = "analyzed" =>
              /\ insights[1].critical_resources
                    \subseteq DOMAIN insights[1].shared_resources
              /\ \A r \in DOMAIN ResourceToOperations :
                    Cardinality(ResourceToOperations[r]) = 1 =>
                        r \notin insights[1].critical_resources

\* C12 witness: an analysis with a critical resource, which is shared, next
\* to a resource used by a single operation, which is not critical.
C12_Witness ==
    /\ pc = "analyzed"
    /\ \E r \in insights[1].critical_resources :
          r \in DOMAIN insights[1].shared_resources
    /\ \E r \in DOMAIN ResourceToOperations :
          /\ Cardinality(ResourceToOperations[r]) = 1
          /\ r \notin insights[1].critical_resources

====
